---- MODULE Spec2Model ----
(***************************************************************************)
(* Model of drawing-app/lambda_function.py: the sketch-to-image Lambda     *)
(* handler.  One behaviour of the model is one invocation of               *)
(* lambda_handler: the event and the environment are fixed by Init, the    *)
(* handler's statements are taken stage by stage, and the replies of the   *)
(* generation API and of S3 are drawn when the code asks for them.         *)
(*                                                                         *)
(* Python strings on which the code works character by character           *)
(* (imageData, MIME types, base64 data) are sequences of one-character     *)
(* strings.  Messages that the code only passes along are TLA+ strings.    *)
(***************************************************************************)
EXTENDS Integers, Sequences, FiniteSets, TLC

\* ------------------------------------------------------------------ bounds
\* longest tail appended to a prefix when the imageData strings are built
MaxTail == 2
\* most parts in the first candidate of an API reply
MaxParts == 2
\* most candidates in an API reply
MaxCandidates == 2

\* -------------------------------------------------------- program constants
\* line 97: if len(image_data) < 10
MinImageLen == 10

\* ------------------------------------------------------------ string tools
DataImage == <<"d","a","t","a",":","i","m","a","g","e">>
DataImageP == DataImage \o <<"/","p",";">>
Pad8 == <<"x","x","x","x","x","x","x","x">>
ImagePng == <<"i","m","a","g","e","/","p","n","g">>
ImageSlash == <<"i","m","a","g","e","/">>
TextPlain == <<"t","e","x","t","/","p","l","a","i","n">>
DataUrlPngPrefix ==
  <<"d","a","t","a",":","i","m","a","g","e","/","p","n","g",";","b","a","s","e","6","4",",">>

\* str.startswith
StartsWith(s, p) == Len(s) >= Len(p) /\ SubSeq(s, 1, Len(p)) = p

Occurs(s, c) == {i \in 1..Len(s) : s[i] = c}

Min(S) == CHOOSE m \in S : \A k \in S : m <= k

\* str.split(sep) for a one-character separator: every occurrence splits,
\* so n occurrences give n + 1 pieces, the k-th between the occurrences
\* k - 1 and k
Split(s, c) ==
  LET occ == Occurs(s, c)
      n == Cardinality(occ)
      pos(k) == CHOOSE i \in occ : Cardinality({j \in occ : j < i}) = k - 1
      first(k) == IF k = 1 THEN 1 ELSE pos(k - 1) + 1
      last(k) == IF k = n + 1 THEN Len(s) ELSE pos(k) - 1
  IN [k \in 1..(n + 1) |-> SubSeq(s, first(k), last(k))]

\* ------------------------------------------------------------ JSON values
\* A value of a request field.  t is the Python type, s the characters of a
\* str, n the number, the truth value (0/1) or the length of a list or dict.
Val(t, s, n) == [t |-> t, s |-> s, n |-> n]
Absent == Val("absent", <<>>, 0)
NoneVal == Val("null", <<>>, 0)
Str(s) == Val("str", s, 0)
Num(n) == Val("num", <<>>, n)
Bool(b) == Val("bool", <<>>, IF b THEN 1 ELSE 0)
List(n) == Val("list", <<>>, n)
Dict(n) == Val("dict", <<>>, n)

\* Python truthiness: bool(v)
Truthy(v) ==
  CASE v.t = "absent" -> FALSE
    [] v.t = "null" -> FALSE
    [] v.t = "str" -> Len(v.s) > 0
    [] OTHER -> v.n # 0

\* whether len(v) is defined
Sized(v) == v.t \in {"str", "list", "dict"}

\* hashable values can be dict keys
Hashable(v) == v.t \notin {"list", "dict"}

\* dict.get(key) of a request object: a missing key reads as None
Get(v) == IF v.t = "absent" THEN NoneVal ELSE v

\* dict.get(key, default)
GetDefault(v, d) == IF v.t = "absent" THEN d ELSE v

Realistic == Str(<<"r","e","a","l","i","s","t","i","c">>)

\* a request object: the two keys the handler reads (Absent: key not there)
Obj(i, s) == [imageData |-> i, style |-> s]
EmptyObj == Obj(Absent, Absent)

\* --------------------------------------------------------------- JSON text
\* The text of a string body is a sequence of tokens: punctuation, an object
\* key, or a literal value.
Tok(k, name, v) == [k |-> k, name |-> name, v |-> v]
LBrace == Tok("{", "", Absent)
RBrace == Tok("}", "", Absent)
Comma == Tok(",", "", Absent)
Colon == Tok(":", "", Absent)
Key(name) == Tok("key", name, Absent)
Lit(v) == Tok("lit", "", v)

Member(name, v) == IF v.t = "absent" THEN <<>> ELSE <<Key(name), Colon, Lit(v)>>

\* json.dumps of a request object: the keys that are present, in order,
\* separated by commas
json_dumps(o) ==
  LET i == Member("imageData", o.imageData)
      s == Member("style", o.style)
      sep == IF i # <<>> /\ s # <<>> THEN <<Comma>> ELSE <<>>
  IN <<LBrace>> \o i \o sep \o s \o <<RBrace>>

\* the result of json.loads: ok is FALSE on JSONDecodeError; t is the type of
\* the parsed value ("dict", "null" or "other"), obj the parsed object
Parsed(ok, t, o) == [ok |-> ok, t |-> t, obj |-> o]
JSONDecodeError == Parsed(FALSE, "other", EmptyObj)

\* SetKey with the parser losing every member but imageData
SetKey_drops_style(o, name, v) ==
  CASE name = "imageData" -> Obj(v, o.style)
    [] OTHER -> o

\* stores one parsed member; a repeated key keeps the last value, a key the
\* handler never reads is dropped
SetKey(o, name, v) ==
  CASE name = "imageData" -> Obj(v, o.style)
    [] name = "style" -> Obj(o.imageData, v)
    [] OTHER -> o

\* members of an object after the opening brace: pair ("," pair)*
RECURSIVE ParseMembers(_, _)
ParseMembers(toks, acc) ==
  IF Len(toks) < 3 \/ toks[1].k # "key" \/ toks[2].k # ":" \/ toks[3].k # "lit"
  THEN JSONDecodeError
  ELSE LET o == SetKey(acc, toks[1].name, toks[3].v)
           rest == SubSeq(toks, 4, Len(toks))
       IN IF rest = <<>> THEN Parsed(TRUE, "dict", o)
          ELSE IF rest[1].k = "," THEN ParseMembers(Tail(rest), o)
          ELSE JSONDecodeError

\* json.loads
json_loads(text) ==
  IF Len(text) = 0 THEN JSONDecodeError
  ELSE IF Len(text) = 1 /\ text[1].k = "lit"
       THEN Parsed(TRUE, IF text[1].v.t = "null" THEN "null" ELSE "other", EmptyObj)
  ELSE IF text[1].k = "{" /\ text[Len(text)].k = "}" /\ Len(text) >= 2
       THEN IF Len(text) = 2 THEN Parsed(TRUE, "dict", EmptyObj)
            ELSE ParseMembers(SubSeq(text, 2, Len(text) - 1), EmptyObj)
  ELSE JSONDecodeError

\* ------------------------------------------------------------------ events
\* The value under the event's "body" key: t is "absent" (no such key),
\* "str" (text holds the tokens), "dict" (obj holds the object) or "other".
BodyField(t, text, o) == [t |-> t, text |-> text, obj |-> o]
NoBodyField == BodyField("absent", <<>>, EmptyObj)

\* The event: isdict tells whether it is a dict; body, imageData and style
\* are the keys the handler looks at.
Event(d, b, i, s) == [isdict |-> d, body |-> b, imageData |-> i, style |-> s]

\* the three invocation shapes of a logical request r
WrapText(r) == Event(TRUE, BodyField("str", json_dumps(r), EmptyObj), Absent, Absent)
WrapDict(r) == Event(TRUE, BodyField("dict", <<>>, r), Absent, Absent)
Direct(r) == Event(TRUE, NoBodyField, r.imageData, r.style)

\* -------------------------------------------------------------- responses
cors_headers ==
  ("Content-Type" :> "application/json")
  @@ ("Access-Control-Allow-Origin" :> "*")
  @@ ("Access-Control-Allow-Headers" :> "Content-Type,x-api-key,Authorization")
  @@ ("Access-Control-Allow-Methods" :> "POST,OPTIONS")

Data(p, i, u, s) == [prompt |-> p, imageBase64 |-> i, s3Url |-> u, style |-> s]
NoData == Data(<<>>, <<>>, NoneVal, NoneVal)
Envelope(code, h, ok, err, d) ==
  [statusCode |-> code, headers |-> h,
   body |-> [success |-> ok, error |-> err, data |-> d]]

\* no envelope returned yet
NoResponse == Envelope(0, cors_headers, FALSE, "", NoData)

error_response(message, status_code) ==
  Envelope(status_code, cors_headers, FALSE, message, NoData)

success_response(prompt, image, url, st) ==
  Envelope(200, cors_headers, TRUE, "", Data(prompt, DataUrlPngPrefix \o image, url, st))

\* ----------------------------------------------------- payload normalizer
\* Lines 23-67: the body the event resolves to, or the error returned.
Resolved(ok, o, err) == [ok |-> ok, body |-> o, err |-> err]

ResolveBody(ev) ==
  IF ev.isdict /\ ev.body.t # "absent"
  THEN CASE ev.body.t = "str" ->
              LET p == json_loads(ev.body.text)
              IN IF ~p.ok THEN Resolved(FALSE, EmptyObj, "Invalid JSON: JSONDecodeError")
                 ELSE IF p.t = "null" THEN Resolved(FALSE, EmptyObj, "No request body")
                 ELSE IF p.t # "dict" THEN Resolved(FALSE, EmptyObj, "Body must be an object")
                 ELSE Resolved(TRUE, p.obj, "")
         [] ev.body.t = "dict" -> Resolved(TRUE, ev.body.obj, "")
         [] OTHER -> Resolved(FALSE, EmptyObj, "Invalid body format")
  ELSE IF ev.isdict /\ ev.imageData.t # "absent"
       THEN Resolved(TRUE, Obj(ev.imageData, ev.style), "")
  ELSE IF ev.isdict
       THEN Resolved(TRUE, Obj(ev.imageData, ev.style), "")
  ELSE Resolved(FALSE, EmptyObj, "Invalid event format")

\* ------------------------------------------------------- generation client
\* lines 160-171: the style table, keyed by the characters of the style name
style_prompts ==
  (<<"r","e","a","l","i","s","t","i","c">> :> "photorealistic, highly detailed, professional photography, natural lighting, 8k quality")
  @@ (<<"a","n","i","m","e">> :> "anime style, vibrant colors, Japanese animation aesthetic, cel-shaded, manga inspired")
  @@ (<<"c","a","r","t","o","o","n">> :> "cartoon style, bold colors, playful illustration, animated feel, exaggerated features")
  @@ (<<"o","i","l","-","p","a","i","n","t","i","n","g">> :> "oil painting style, classical art, textured brushstrokes, rich colors, artistic masterpiece")
  @@ (<<"w","a","t","e","r","c","o","l","o","r">> :> "watercolor painting, soft washes, delicate colors, artistic, painted on paper texture")
  @@ (<<"s","k","e","t","c","h">> :> "detailed pencil sketch, hand-drawn, artistic line work, shading and hatching, graphite drawing")
  @@ (<<"3","d","-","r","e","n","d","e","r">> :> "3D rendered, computer graphics, smooth surfaces, professional CGI, octane render, unreal engine")
  @@ (<<"p","i","x","e","l","-","a","r","t">> :> "pixel art style, retro gaming aesthetic, 8-bit or 16-bit graphics, pixelated, sprite art")
  @@ (<<"c","y","b","e","r","p","u","n","k">> :> "cyberpunk style, neon lights, futuristic, sci-fi aesthetic, dark with bright accents, technological")
  @@ (<<"f","a","n","t","a","s","y">> :> "fantasy art style, magical atmosphere, ethereal, epic illustration, mystical and enchanting")

\* line 173: style_prompts.get(style, "high quality artistic style")
style_desc(st) ==
  IF st.t = "str" /\ st.s \in DOMAIN style_prompts THEN style_prompts[st.s]
  ELSE "high quality artistic style"

\* line 174: the f-string, as its three pieces
full_prompt(st) ==
  <<"Transform this sketch into a beautiful image, ", style_desc(st),
    ", masterpiece quality, professional artwork">>

\* One part of a candidate.  inline: the part has an inlineData key;
\* mimeType and data are inlineData's fields (empty when the key is missing).
Part(inline, mime, data) == [inline |-> inline, mimeType |-> mime, data |-> data]

\* What urlopen and the JSON decoding of the reply give.  kind is "ok" (a
\* JSON object was read), "http_error" (urllib.error.HTTPError) or "error"
\* (any other exception: timeout, URLError, undecodable reply).
Reply(kind, has, cands) == [kind |-> kind, hasCandidates |-> has, candidates |-> cands]

\* ImagePartIndex taking the last image part instead of the first
ImagePartIndex_last(parts) ==
  LET hits == {i \in 1..Len(parts) :
                 parts[i].inline /\ StartsWith(parts[i].mimeType, ImageSlash)}
  IN IF hits = {} THEN 0 ELSE CHOOSE m \in hits : \A k \in hits : m >= k

\* lines 229-237: the first part with inline data of an image type; 0 if none
ImagePartIndex(parts) ==
  LET hits == {i \in 1..Len(parts) :
                 parts[i].inline /\ StartsWith(parts[i].mimeType, ImageSlash)}
  IN IF hits = {} THEN 0 ELSE Min(hits)

\* lines 225-247: the image data found in a decoded reply, None if there is
\* none
ExtractImage(reply) ==
  IF reply.hasCandidates /\ Len(reply.candidates) > 0
  THEN LET parts == reply.candidates[1]
           i == ImagePartIndex(parts)
       IN IF i # 0 /\ Len(parts[i].data) > 0 THEN Str(parts[i].data) ELSE NoneVal
  ELSE NoneVal

\* The request that reaches the API (lines 180-217); sent is FALSE when
\* no request was made.
Request(sent, prompt, mime, data) ==
  [sent |-> sent, prompt |-> prompt, mimeType |-> mime, data |-> data]
NoRequest == Request(FALSE, <<>>, <<>>, <<>>)
NoReply == Reply("none", FALSE, <<>>)

\* generate_image_from_sketch (lines 157-257): the pair returned and the
\* request made, for the reply the API gives.  An unhashable style makes the
\* table lookup raise before anything is sent.
Generated(image, prompt, req) == [image |-> image, prompt |-> prompt, request |-> req]

generate_image_from_sketch(sketch_data, st, mime, reply) ==
  IF ~Hashable(st) THEN Generated(NoneVal, <<>>, NoRequest)
  ELSE LET req == Request(TRUE, full_prompt(st), mime, sketch_data)
       IN CASE reply.kind = "ok" -> Generated(ExtractImage(reply), full_prompt(st), req)
            [] reply.kind = "http_error" -> Generated(NoneVal, full_prompt(st), req)
            [] OTHER -> Generated(NoneVal, <<>>, req)

\* -------------------------------------------------------- result publisher
\* line 272: base64.b64decode raises binascii.Error unless the characters
\* come in groups of four
Base64Valid(s) == Len(s) % 4 = 0

PresignedUrl == Str(<<"u","r","l">>)

\* upload_to_s3 (lines 260-290): the URL returned and the S3 operations
\* made, given whether put_object and generate_presigned_url succeed.  exc is
\* the message of an exception that leaves the function ("" when none does:
\* the except clause of line 288 returns None for every one raised inside).
\* An operation is recorded with whether it succeeded.
Op(name, ok) == [op |-> name, ok |-> ok]
Uploaded(url, ops, e) == [url |-> url, ops |-> ops, exc |-> e]

\* upload_to_s3 without the except clause of line 288
upload_to_s3_raises(image_base64, bucket_name, put_ok, presign_ok) ==
  IF ~Truthy(bucket_name) THEN Uploaded(NoneVal, <<>>, "")
  ELSE IF ~Base64Valid(image_base64) THEN Uploaded(NoneVal, <<>>, "Incorrect padding")
  ELSE IF ~put_ok THEN Uploaded(NoneVal, <<Op("put_object", FALSE)>>, "ClientError")
  ELSE IF ~presign_ok
       THEN Uploaded(NoneVal,
                     <<Op("put_object", TRUE), Op("generate_presigned_url", FALSE)>>,
                     "ClientError")
  ELSE Uploaded(PresignedUrl,
                <<Op("put_object", TRUE), Op("generate_presigned_url", TRUE)>>, "")

upload_to_s3(image_base64, bucket_name, put_ok, presign_ok) ==
  IF ~Truthy(bucket_name) THEN Uploaded(NoneVal, <<>>, "")
  ELSE IF ~Base64Valid(image_base64) THEN Uploaded(NoneVal, <<>>, "")
  ELSE IF ~put_ok THEN Uploaded(NoneVal, <<Op("put_object", FALSE)>>, "")
  ELSE IF ~presign_ok
       THEN Uploaded(NoneVal,
                     <<Op("put_object", TRUE), Op("generate_presigned_url", FALSE)>>, "")
  ELSE Uploaded(PresignedUrl,
                <<Op("put_object", TRUE), Op("generate_presigned_url", TRUE)>>, "")

\* ------------------------------------------------- image payload decoder
\* line 77: len(image_data) if image_data else 0 raises TypeError when the
\* value is truthy and has no length
LenRaises(v) == Truthy(v) /\ ~Sized(v)

TypeErrorMessage(v) ==
  IF v.t = "bool" THEN "object of type 'bool' has no len()"
  ELSE "object of type 'int' has no len()"

\* ValidateImageData with the length test off by one
ValidateImageData_off_by_one(v) ==
  IF ~Truthy(v) THEN "No image data provided"
  ELSE IF v.t # "str" THEN "imageData must be a string"
  ELSE IF Len(v.s) < MinImageLen - 1 THEN "imageData is too short"
  ELSE ""

\* lines 88-99: the message of the 400 returned, "" when imageData passes
ValidateImageData(v) ==
  IF ~Truthy(v) THEN "No image data provided"
  ELSE IF v.t # "str" THEN "imageData must be a string"
  ELSE IF Len(v.s) < MinImageLen THEN "imageData is too short"
  ELSE ""

\* lines 102-114: the MIME type and the payload, or ok = FALSE for the 400
Decoded(ok, mime, data) == [ok |-> ok, mime_type |-> mime, image_data |-> data]

\* DecodeImageData splitting at the first comma only: split(",", 1)
DecodeImageData_first_comma(s) ==
  IF StartsWith(s, DataImage)
  THEN IF Occurs(s, ",") # {}
       THEN LET i == Min(Occurs(s, ","))
            IN Decoded(TRUE, Split(Split(s, ";")[1], ":")[2], SubSeq(s, i + 1, Len(s)))
       ELSE Decoded(FALSE, ImagePng, s)
  ELSE Decoded(TRUE, ImagePng, s)

DecodeImageData(s) ==
  IF StartsWith(s, DataImage)
  THEN LET parts == Split(s, ",")
       IN IF Len(parts) = 2
          THEN Decoded(TRUE, Split(Split(s, ";")[1], ":")[2], parts[2])
          ELSE Decoded(FALSE, ImagePng, s)
  ELSE Decoded(TRUE, ImagePng, s)

\* ------------------------------------------------------------------ inputs
Alphabet == {",", ";", ":", "/", "x"}
Tails == UNION {[1..k -> Alphabet] : k \in 0..MaxTail}
Prefixes == {<<>>, Pad8, DataImage, DataImageP}
ImageStrings == {p \o t : p \in Prefixes, t \in Tails}

ImageValues ==
  {Absent, NoneVal, Num(0), Num(5), Bool(TRUE), Bool(FALSE), List(0), List(1), Dict(1)}
  \cup {Str(s) : s \in ImageStrings}

Anime == Str(<<"a","n","i","m","e">>)
Impressionist == Str(<<"i","m","p","r","e","s","s","i","o","n","i","s","t">>)
StyleValues == {Absent, Anime, Impressionist, List(1)}

\* the logical requests {imageData, style?}
Requests == {Obj(i, st) : i \in ImageValues, st \in StyleValues}

\* body texts that are no JSON, or JSON of something other than an object
BadTexts ==
  {<<>>, <<LBrace>>, <<LBrace, Key("imageData"), RBrace>>,
   <<Lit(NoneVal)>>, <<Lit(Num(5))>>, <<Lit(List(1))>>}

Events ==
  {WrapText(r) : r \in Requests} \cup {WrapDict(r) : r \in Requests}
  \cup {Direct(r) : r \in Requests}
  \cup {Event(TRUE, BodyField("str", t, EmptyObj), Absent, Absent) : t \in BadTexts}
  \cup {Event(TRUE, BodyField("other", <<>>, EmptyObj), Absent, Absent),
        Event(TRUE, BodyField("other", <<>>, EmptyObj), Str(Pad8 \o Pad8), Absent),
        Event(FALSE, NoBodyField, Absent, Absent)}

Env(k, b) == [GEMINI_API_KEY |-> k, S3_BUCKET_NAME |-> b]
Envs == {Env(k, b) : k \in {NoneVal, Str(<<>>), Str(<<"k">>)},
                     b \in {NoneVal, Str(<<"b">>)}}

Image4 == <<"A","A","A","A">>
Text4 == <<"T","T","T","T">>
PartKinds ==
  {Part(FALSE, <<>>, <<>>), Part(TRUE, TextPlain, Text4), Part(TRUE, ImagePng, Image4),
   Part(TRUE, ImagePng, <<"B">>), Part(TRUE, ImagePng, <<>>)}
PartSeqs(n) == UNION {[1..k -> PartKinds] : k \in 0..n}

\* the replies every invocation is tried against
SimpleReplies ==
  {Reply("http_error", FALSE, <<>>), Reply("error", FALSE, <<>>),
   Reply("ok", FALSE, <<>>),
   Reply("ok", TRUE, <<  <<Part(FALSE, <<>>, <<>>)>>  >>),
   Reply("ok", TRUE, <<  <<Part(TRUE, ImagePng, Image4)>>  >>),
   Reply("ok", TRUE, <<  <<Part(TRUE, ImagePng, <<"B">>)>>  >>)}

\* candidate lists: any parts in the first candidate; a later candidate is
\* empty or holds an image of its own
Image4C == <<"C","C","C","C">>
LaterCandidates == {<<>>, <<Part(TRUE, ImagePng, Image4C)>>}
CandidateLists ==
  {<<>>} \cup
  {<<first>> \o rest : first \in PartSeqs(MaxParts),
                       rest \in UNION {[1..k -> LaterCandidates] : k \in 0..(MaxCandidates - 1)}}

AllReplies ==
  {Reply("http_error", FALSE, <<>>), Reply("error", FALSE, <<>>), Reply("ok", FALSE, <<>>)}
  \cup {Reply("ok", TRUE, c) : c \in CandidateLists}

\* ------------------------------------------------------------------- state
VARIABLES
  event,                  \* the event lambda_handler was invoked with
  env,                    \* os.environ
  pc,                     \* the stage the handler is at
  body,                   \* the resolved request body
  image_data,             \* lines 72, 109
  style,                  \* line 73
  api_key,                \* line 81
  mime_type,              \* lines 102, 108
  request,                \* the request the generation API received
  api_reply,              \* what the generation API answered
  api_calls,              \* number of calls of urlopen
  generated_image_base64, \* line 120
  prompt_used,            \* line 120
  upload_calls,           \* number of calls of upload_to_s3
  s3_ops,                 \* the S3 operations made, in order
  s3_url,                 \* line 131
  exc,                    \* message of the exception being handled
  response                \* the envelope returned

vars ==
  <<event, env, pc, body, image_data, style, api_key, mime_type, request, api_reply, api_calls,
    generated_image_base64, prompt_used, upload_calls, s3_ops, s3_url, exc, response>>

inputs == <<event, env>>
extracted == <<body, image_data, style>>
generation == <<request, api_reply, api_calls, generated_image_base64, prompt_used>>
storage == <<upload_calls, s3_ops, s3_url>>

Start(events, envs) ==
  /\ event \in events
  /\ env \in envs
  /\ pc = "normalize"
  /\ body = EmptyObj
  /\ image_data = NoneVal
  /\ style = NoneVal
  /\ api_key = NoneVal
  /\ mime_type = <<>>
  /\ request = NoRequest
  /\ api_reply = NoReply
  /\ api_calls = 0
  /\ generated_image_base64 = NoneVal
  /\ prompt_used = <<>>
  /\ upload_calls = 0
  /\ s3_ops = <<>>
  /\ s3_url = NoneVal
  /\ exc = ""
  /\ response = NoResponse

Init == Start(Events, Envs)

\* return <envelope>
Return(r) == pc' = "done" /\ response' = r

\* lines 19-67.  The logging of line 20 (json.dumps with default=str) does
\* not raise for an event made of JSON values.  The message of an unparsable
\* body stands for "Invalid JSON: " followed by the decoder's text.
Normalize ==
  /\ pc = "normalize"
  /\ LET r == ResolveBody(event)
     IN IF r.ok
        THEN pc' = "extract" /\ body' = r.body /\ UNCHANGED response
        ELSE Return(error_response(r.err, 400)) /\ UNCHANGED body
  /\ UNCHANGED <<inputs, image_data, style, api_key, mime_type, generation, storage, exc>>

\* lines 69-78
Extract ==
  /\ pc = "extract"
  /\ image_data' = Get(body.imageData)
  /\ style' = GetDefault(body.style, Realistic)
  /\ IF LenRaises(Get(body.imageData))
     THEN pc' = "except" /\ exc' = TypeErrorMessage(Get(body.imageData))
     ELSE pc' = "check_key" /\ UNCHANGED exc
  /\ UNCHANGED <<inputs, body, api_key, mime_type, generation, storage, response>>

\* CheckKey testing only for a key that is not set: if api_key is None
CheckKey_none_only ==
  /\ pc = "check_key"
  /\ api_key' = env.GEMINI_API_KEY
  /\ IF env.GEMINI_API_KEY.t = "null"
     THEN Return(error_response("GEMINI_API_KEY not configured", 500))
     ELSE pc' = "validate" /\ UNCHANGED response
  /\ UNCHANGED <<inputs, extracted, mime_type, generation, storage, exc>>

\* lines 80-85
CheckKey ==
  /\ pc = "check_key"
  /\ api_key' = env.GEMINI_API_KEY
  /\ IF ~Truthy(env.GEMINI_API_KEY)
     THEN Return(error_response("GEMINI_API_KEY not configured", 500))
     ELSE pc' = "validate" /\ UNCHANGED response
  /\ UNCHANGED <<inputs, extracted, mime_type, generation, storage, exc>>

\* lines 87-99
Validate ==
  /\ pc = "validate"
  /\ LET err == ValidateImageData(image_data)
     IN IF err # ""
        THEN Return(error_response(err, 400))
        ELSE pc' = "decode" /\ UNCHANGED response
  /\ UNCHANGED <<inputs, extracted, api_key, mime_type, generation, storage, exc>>

\* Decode without the return of line 114
Decode_no_return ==
  /\ pc = "decode"
  /\ LET d == DecodeImageData(image_data.s)
     IN /\ mime_type' = d.mime_type
        /\ image_data' = Str(d.image_data)
        /\ pc' = "generate"
        /\ UNCHANGED response
  /\ UNCHANGED <<inputs, body, style, api_key, generation, storage, exc>>

\* lines 101-116
Decode ==
  /\ pc = "decode"
  /\ LET d == DecodeImageData(image_data.s)
     IN IF d.ok
        THEN /\ mime_type' = d.mime_type
             /\ image_data' = Str(d.image_data)
             /\ pc' = "generate"
             /\ UNCHANGED response
        ELSE /\ Return(error_response("Invalid data URL format", 400))
             /\ mime_type' = ImagePng
             /\ UNCHANGED image_data
  /\ UNCHANGED <<inputs, body, style, api_key, generation, storage, exc>>

\* lines 118-128, for the reply the API gives
Generate(reply) ==
  /\ pc = "generate"
  /\ LET g == generate_image_from_sketch(image_data.s, style, mime_type, reply)
     IN /\ request' = g.request
        /\ api_reply' = (IF g.request.sent THEN reply ELSE NoReply)
        /\ api_calls' = api_calls + (IF g.request.sent THEN 1 ELSE 0)
        /\ generated_image_base64' = g.image
        /\ prompt_used' = g.prompt
        /\ IF ~Truthy(g.image)
           THEN Return(error_response("Failed to generate image", 500))
           ELSE pc' = "upload" /\ UNCHANGED response
  /\ UNCHANGED <<inputs, extracted, api_key, mime_type, storage, exc>>

\* lines 130-131, for the outcomes of the two S3 operations
Upload(put_ok, presign_ok) ==
  /\ pc = "upload"
  /\ LET u == upload_to_s3(generated_image_base64.s, env.S3_BUCKET_NAME, put_ok, presign_ok)
     IN /\ upload_calls' = upload_calls + 1
        /\ s3_ops' = s3_ops \o u.ops
        /\ s3_url' = u.url
        /\ IF u.exc # ""
           THEN pc' = "except" /\ exc' = u.exc
           ELSE pc' = "respond" /\ UNCHANGED exc
  /\ UNCHANGED <<inputs, extracted, api_key, mime_type, generation, response>>

\* lines 133-149
Respond ==
  /\ pc = "respond"
  /\ Return(success_response(prompt_used, generated_image_base64.s, s3_url, style))
  /\ UNCHANGED <<inputs, extracted, api_key, mime_type, generation, storage, exc>>

\* Except with the exception leaving the handler
Except_escapes ==
  /\ pc = "except"
  /\ pc' = "raised"
  /\ UNCHANGED <<inputs, extracted, api_key, mime_type, generation, storage, exc, response>>

\* lines 151-154
Except ==
  /\ pc = "except"
  /\ Return(error_response(exc, 500))
  /\ UNCHANGED <<inputs, extracted, api_key, mime_type, generation, storage, exc>>

CallApi == \E reply \in SimpleReplies : Generate(reply)
CallApiAny == \E reply \in AllReplies : Generate(reply)
CallS3 == \E put_ok \in BOOLEAN, presign_ok \in BOOLEAN : Upload(put_ok, presign_ok)

Next ==
  \/ Normalize
  \/ Extract
  \/ CheckKey
  \/ Validate
  \/ Decode
  \/ CallApi
  \/ CallS3
  \/ Respond
  \/ Except

Spec == Init /\ [][Next]_vars

\* The generation client against every shape of reply, for a few requests.
GenRequests ==
  {Obj(Str(DataImageP \o <<",", "x">>), Absent), Obj(Str(Pad8 \o Pad8), Anime),
   Obj(Str(Pad8 \o Pad8), List(1)), Obj(Num(5), Absent)}
GenEvents == {WrapText(r) : r \in GenRequests} \cup {Direct(r) : r \in GenRequests}
GenEnvs == {Env(Str(<<"k">>), b) : b \in {NoneVal, Str(<<"b">>)}}

InitGen == Start(GenEvents, GenEnvs)

NextGen ==
  \/ Normalize
  \/ Extract
  \/ CheckKey
  \/ Validate
  \/ Decode
  \/ CallApiAny
  \/ CallS3
  \/ Respond
  \/ Except

SpecGen == InitGen /\ [][NextGen]_vars

\* ================================================================== claims
Done == pc = "done"
KeySet == Truthy(env.GEMINI_API_KEY)
Status == response.statusCode
Error == response.body.error
\* the imageData of the body the event resolved to (None before that)
SentImage == Get(body.imageData)
Stages ==
  {"normalize", "extract", "check_key", "validate", "decode", "generate", "upload",
   "respond", "except", "done"}
BeforeApi == {"normalize", "extract", "check_key", "validate", "decode", "generate"}
NormalizeErrors ==
  {"Invalid JSON: JSONDecodeError", "Invalid body format", "Invalid event format",
   "No request body", "Body must be an object"}
ImageErrors ==
  {"No image data provided", "imageData must be a string", "imageData is too short",
   "Invalid data URL format"}

\* ---- C1
\* the JSON texts of the logical requests
RequestTexts == {json_dumps(r) : r \in Requests}

\* the event is one of the three shapes of a logical request
WellFormed(ev) ==
  /\ ev.isdict
  /\ ev.body.t \in {"str", "dict", "absent"}
  /\ ev.body.t = "str" => ev.body.text \in RequestTexts

\* ev is one of the three shapes of the logical request r: r's JSON text
\* under "body", r itself under "body", or r as the event
IsShapeOf(ev, r) ==
  CASE ev.body.t = "str" -> r \in Requests /\ json_dumps(r) = ev.body.text
    [] ev.body.t = "dict" -> r = ev.body.obj
    [] OTHER -> r = Obj(ev.imageData, ev.style)

\* C1: whichever of the three shapes {body: JSON text of R}, {body: R} and R
\* itself the event has, normalization succeeds, the body is R, and the pair
\* extracted is R's imageData and R's style, "realistic" when R has no style.
C1_SameExtractedPair ==
  (WellFormed(event) /\ pc # "normalize") =>
    /\ IsShapeOf(event, body)
    /\ Done => Error \notin NormalizeErrors
    /\ pc # "extract" => style = GetDefault(body.style, Realistic)
    /\ pc \in {"check_key", "validate", "decode"} => image_data = Get(body.imageData)

C1_Witness ==
  /\ pc = "check_key"
  /\ event.body.t = "str"
  /\ event.body.text = json_dumps(Obj(image_data, Absent))
  /\ style = Realistic
  /\ image_data.t = "str" /\ Len(image_data.s) >= MinImageLen

\* ---- C2
\* C2: the handler always ends by returning one envelope whose status is 200,
\* 400 or 500: no stage is stuck, no exception leaves the handler, nothing is
\* returned before the end, and an exception caught by the umbrella handler
\* gives a 500 whose error is the exception's message.
C2_AlwaysOneEnvelope ==
  /\ pc \in Stages
  /\ ~Done => (response = NoResponse /\ ENABLED Next)
  /\ Done => /\ Status \in {200, 400, 500}
             /\ response.headers = cors_headers
             /\ response.body.success = (Status = 200)
             /\ exc # "" => (Status = 500 /\ Error = exc)

C2_Witness == Done /\ exc # "" /\ Status = 500 /\ Error = exc

\* ---- C3
UploadFailed ==
  \/ ~Truthy(env.S3_BUCKET_NAME)
  \/ ~Base64Valid(generated_image_base64.s)
  \/ \E i \in 1..Len(s3_ops) : ~s3_ops[i].ok

\* C3: once the API has returned an image the handler answers 200 with
\* success true, whatever storage does; prompt, imageBase64 and style do not
\* depend on the upload, and s3Url is null when the bucket is not set or the
\* decoding, the PUT or the pre-signing fails.
C3_StorageNeverFailsRequest ==
  (Done /\ Truthy(generated_image_base64)) =>
    /\ Status = 200
    /\ response.body.success
    /\ upload_calls = 1
    /\ response.body.data.prompt = full_prompt(style)
    /\ response.body.data.imageBase64 = DataUrlPngPrefix \o generated_image_base64.s
    /\ response.body.data.style = style
    /\ UploadFailed => response.body.data.s3Url = NoneVal
    /\ ~UploadFailed => response.body.data.s3Url = PresignedUrl

C3_Witness ==
  /\ Done /\ Status = 200
  /\ Truthy(env.S3_BUCKET_NAME)
  /\ s3_ops = <<Op("put_object", FALSE)>>
  /\ response.body.data.s3Url = NoneVal

\* ---- C4
\* C4 as claimed: with GEMINI_API_KEY unset or empty every invocation ends in
\* the 500 "GEMINI_API_KEY not configured", whatever the event.
C4_KeyCheckedFirst ==
  (Done /\ ~KeySet) => (Status = 500 /\ Error = "GEMINI_API_KEY not configured")

\* C4 amended: with GEMINI_API_KEY unset or empty the key check comes after
\* normalization and before the validation of imageData.  An event that does
\* not resolve to an object gets its 400; every other event gets a 500, which
\* is "GEMINI_API_KEY not configured" unless the logging of the imageData
\* length raised first; no imageData error is returned and neither the API nor
\* storage is called.
C4_KeyCheckedAfterNormalize ==
  ~KeySet =>
    /\ api_calls = 0 /\ upload_calls = 0 /\ s3_ops = <<>>
    /\ pc \notin {"validate", "decode", "generate", "upload", "respond"}
    /\ Done =>
         LET r == ResolveBody(event)
         IN /\ Error \notin ImageErrors
            /\ ~r.ok => (Status = 400 /\ Error = r.err)
            /\ r.ok => Status = 500
            /\ (r.ok /\ ~LenRaises(Get(r.body.imageData)))
                 => Error = "GEMINI_API_KEY not configured"
            /\ (r.ok /\ LenRaises(Get(r.body.imageData)))
                 => Error = TypeErrorMessage(Get(r.body.imageData))

C4_Witness ==
  /\ Done /\ ~KeySet
  /\ env.GEMINI_API_KEY = Str(<<>>)
  /\ ResolveBody(event).ok
  /\ SentImage.t = "str" /\ Len(SentImage.s) = 1
  /\ Status = 500 /\ Error = "GEMINI_API_KEY not configured"

\* ---- C5
\* C5: with the key configured and a body that resolves to an object, an
\* imageData that is present, truthy and no string is answered with the 400
\* "imageData must be a string", and the API is not called.
C5_NonStringRejected ==
  (Done /\ KeySet /\ ResolveBody(event).ok
   /\ Truthy(SentImage) /\ SentImage.t # "str") =>
    (Status = 400 /\ Error = "imageData must be a string" /\ api_calls = 0)

\* ---- C6
\* C6 as claimed: a string imageData of length 0 to 9 is answered with the 400
\* "imageData is too short" (key configured, body resolved), for every style.
C6_ShortRejected ==
  (Done /\ KeySet /\ ResolveBody(event).ok
   /\ SentImage.t = "str" /\ Len(SentImage.s) < MinImageLen) =>
    (Status = 400 /\ Error = "imageData is too short")

\* C6 amended: with the key configured and a resolved body, a string
\* imageData of length 1 to 9 is answered with the 400 "imageData is too
\* short" for every style; the empty string is answered with the 400 "No
\* image data provided".  Neither reaches the API.
C6_NonEmptyShortRejected ==
  (Done /\ KeySet /\ ResolveBody(event).ok
   /\ SentImage.t = "str" /\ Len(SentImage.s) < MinImageLen) =>
    /\ Status = 400
    /\ api_calls = 0
    /\ Len(SentImage.s) >= 1 => Error = "imageData is too short"
    /\ Len(SentImage.s) = 0 => Error = "No image data provided"

C6_Witness ==
  /\ Done /\ KeySet
  /\ SentImage.t = "str" /\ Len(SentImage.s) = MinImageLen - 1
  /\ body.style = Impressionist
  /\ Status = 400 /\ Error = "imageData is too short"

\* ---- C7
\* the text between the first ':' and the first ';' (for s with both)
BetweenColonAndSemicolon(s) ==
  SubSeq(s, Min(Occurs(s, ":")) + 1, Min(Occurs(s, ";")) - 1)

\* C7: the MIME type sent to the API is image/<subtype> with a subtype that
\* is not empty: image/png when imageData does not start with "data:image",
\* else the text between the first ':' and the first ';'.
C7_MimeTypeIsImageSubtype ==
  request.sent =>
    /\ StartsWith(request.mimeType, ImageSlash)
    /\ Len(request.mimeType) > Len(ImageSlash)
    /\ ~StartsWith(SentImage.s, DataImage) => request.mimeType = ImagePng
    /\ (StartsWith(SentImage.s, DataImage) /\ Occurs(SentImage.s, ";") # {})
         => request.mimeType = BetweenColonAndSemicolon(SentImage.s)

\* ---- C8
IsImagePart(p) == p.inline /\ StartsWith(p.mimeType, ImageSlash)

\* C8: on a 200, imageBase64 is "data:image/png;base64," followed by the data
\* of the first image part of the first candidate, and prompt is the prompt
\* that was sent; later image parts and later candidates supply nothing.
C8_FirstImagePartOfFirstCandidate ==
  (Done /\ Status = 200) =>
    /\ request.sent
    /\ response.body.data.prompt = request.prompt
    /\ api_reply.kind = "ok" /\ api_reply.hasCandidates /\ Len(api_reply.candidates) > 0
    /\ LET parts == api_reply.candidates[1]
       IN \E i \in 1..Len(parts) :
            /\ IsImagePart(parts[i])
            /\ \A j \in 1..(i - 1) : ~IsImagePart(parts[j])
            /\ Len(parts[i].data) > 0
            /\ response.body.data.imageBase64 = DataUrlPngPrefix \o parts[i].data

C8_Witness ==
  /\ Done /\ Status = 200
  /\ Len(api_reply.candidates) = 2
  /\ api_reply.candidates[1] =
       <<Part(TRUE, TextPlain, Text4), Part(TRUE, ImagePng, <<"B">>)>>
  /\ api_reply.candidates[2] = <<Part(TRUE, ImagePng, Image4C)>>
  /\ response.body.data.imageBase64 = DataUrlPngPrefix \o <<"B">>

\* ---- C9
\* C9: the stages run in order and stop at the first failure.  The API is
\* called at most once, and only with the key set and an imageData that
\* passed validation and decoding; upload_to_s3 is called at most once, and
\* only after the API gave an image; a 400 means that neither was called, and
\* the 500 "Failed to generate image" that storage was not.
C9_StagesInOrder ==
  /\ api_calls <= 1 /\ upload_calls <= 1
  /\ pc \in BeforeApi => (api_calls = 0 /\ upload_calls = 0)
  /\ pc = "upload" => upload_calls = 0
  /\ api_calls = 1 =>
       /\ KeySet
       /\ ResolveBody(event).ok
       /\ Truthy(SentImage) /\ SentImage.t = "str" /\ Len(SentImage.s) >= MinImageLen
       /\ StartsWith(SentImage.s, DataImage) => Cardinality(Occurs(SentImage.s, ",")) = 1
  /\ upload_calls = 1 => (api_calls = 1 /\ Truthy(generated_image_base64))
  /\ s3_ops # <<>> => upload_calls = 1
  /\ (Done /\ Status = 400) => (api_calls = 0 /\ upload_calls = 0 /\ s3_ops = <<>>)
  /\ (Done /\ Status = 500 /\ Error = "Failed to generate image")
       => (upload_calls = 0 /\ s3_ops = <<>>)
  /\ (Done /\ Status = 200) => (api_calls = 1 /\ upload_calls = 1)

C9_Witness ==
  /\ Done /\ Status = 200
  /\ api_calls = 1 /\ upload_calls = 1
  /\ s3_ops = <<Op("put_object", TRUE), Op("generate_presigned_url", TRUE)>>

\* ---- C10
AfterFirstComma(s) == SubSeq(s, Min(Occurs(s, ",")) + 1, Len(s))

\* a "data:image" imageData reached the decoder
DataUrlDecoded ==
  /\ KeySet /\ ResolveBody(event).ok
  /\ SentImage.t = "str" /\ StartsWith(SentImage.s, DataImage)

\* C10 as claimed: a "data:image" string is accepted whenever it has a comma,
\* with everything after the first comma as payload, and is answered with the
\* 400 "Invalid data URL format" exactly when it has no comma.
C10_SplitOnFirstComma ==
  (Done /\ DataUrlDecoded) =>
    IF Occurs(SentImage.s, ",") # {}
    THEN /\ Error # "Invalid data URL format"
         /\ request.sent => request.data = AfterFirstComma(SentImage.s)
    ELSE Status = 400 /\ Error = "Invalid data URL format"

\* C10 amended: a "data:image" string is accepted exactly when it has one
\* comma and no more, with everything after that comma as payload; with no
\* comma or with two or more it is answered with the 400 "Invalid data URL
\* format" and the API is not called.
C10_SplitOnEveryComma ==
  DataUrlDecoded =>
    IF Cardinality(Occurs(SentImage.s, ",")) = 1
    THEN /\ Done => Error # "Invalid data URL format"
         /\ pc \in {"generate", "upload", "respond"}
              => image_data = Str(AfterFirstComma(SentImage.s))
         /\ request.sent => request.data = AfterFirstComma(SentImage.s)
    ELSE /\ pc \notin {"generate", "upload", "respond"}
         /\ api_calls = 0
         /\ Done => (Status = 400 /\ Error = "Invalid data URL format")

C10_Witness ==
  /\ Done /\ DataUrlDecoded
  /\ Cardinality(Occurs(SentImage.s, ",")) = 2
  /\ Status = 400 /\ Error = "Invalid data URL format"

====
